---------------------------- MODULE Spec2Model ----------------------------
(***************************************************************************)
(* A model of mara_data_explorer/query.py: the Filter and Query value      *)
(* objects, the SQL compiler (to_sql, filters_to_sql, filter_to_sql), the  *)
(* row counts, the number and date distributions and the dict              *)
(* serialization.                                                          *)
(*                                                                         *)
(* Text is a sequence of tokens.  A token is a TLA+ string: either one     *)
(* character of a caller-supplied value, or a fixed piece of SQL that the  *)
(* code writes itself.  The single quote is always a token of its own, so  *)
(* that the literals of a generated predicate can be scanned.              *)
(***************************************************************************)
EXTENDS Integers, Sequences, FiniteSets, TLC

VARIABLES
    args,       \* the arguments the constructor was called with
    q,          \* the Query object under consideration (NoQuery before construction)
    call,       \* the last call on q: its name and arguments
    result,     \* outcome of the last call: a value or the exception it raised
    executed,   \* statements the last call handed to execute_query
    table,      \* the non-null values of the column the distribution is taken of,
                \* in the rows the filters select
    origin,     \* what those values are counted from: "0", or "10^16" or
                \* "10^30" for a column of large numbers
    nd,         \* number_distribution: the frame of the running call
    dd          \* date_distribution: the frame of the running call

vars == <<args, q, call, result, executed, table, origin, nd, dd>>

-----------------------------------------------------------------------------
(* Bounds of the model *)

MaxColumnNames == 2     \* longest caller-supplied column_names list
MaxFilters == 2         \* longest caller-supplied filters list
MaxValues == 2          \* longest value list of one filter
MaxValueLen == 2        \* longest text value, in characters
MaxRows == 3            \* most rows of a table a distribution is taken of
MaxMantissa == 3        \* number values are m * 10^k with |m| <= MaxMantissa
DecimalPlaces == 1      \* decimal places of the smallest number values
MaxYearSpan == 4        \* the dates of a table lie in 2019 .. 2019 + MaxYearSpan
MaxDecrements == 24     \* passes of the number_distribution loop followed one by one

-----------------------------------------------------------------------------
(* Python values *)

None == "None"
NoQuery == [data_set_id |-> None]
Idle == [op |-> "idle", kind |-> "none"]

Raised(op, exception) == [op |-> op, kind |-> exception]
Returned(op, kind, value) == [op |-> op, kind |-> kind, value |-> value]

Range(s) == {s[i] : i \in DOMAIN s}

SeqsUpTo(S, n) == UNION {[1..k -> S] : k \in 0..n}

RECURSIVE Join(_, _)
\* sep.join(parts) on token sequences
Join(sep, parts) ==
    IF parts = << >> THEN << >>
    ELSE IF Len(parts) = 1 THEN parts[1]
    ELSE parts[1] \o sep \o Join(sep, Tail(parts))

-----------------------------------------------------------------------------
(* The data sets known to find_data_set.  Columns are an ordered mapping   *)
(* name -> type, kept as a sequence of [name, type] in definition order.   *)

DataSets ==
    [ds   |-> [id |-> "ds", database_alias |-> "dwh",
               database_schema |-> "dim", database_table |-> "customer",
               columns |-> << [name |-> "name",   type |-> "text"],
                              [name |-> "tags",   type |-> "text[]"],
                              [name |-> "amount", type |-> "number"],
                              [name |-> "day",    type |-> "date"],
                              [name |-> "blob",   type |-> "json"] >>,
               default_column_names |-> <<"name", "gone", "amount">>,
               personal_data_column_names |-> <<"name", "amount">>],
     raw  |-> [id |-> "raw", database_alias |-> "dwh",
               database_schema |-> "tmp", database_table |-> "raw",
               columns |-> << [name |-> "qty",  type |-> "number"],
                              [name |-> "note", type |-> "text"] >>,
               default_column_names |-> << >>,
               personal_data_column_names |-> <<"note">>],
     void |-> [id |-> "void", database_alias |-> "dwh",
               database_schema |-> "tmp", database_table |-> "dropped",
               columns |-> << >>,
               default_column_names |-> <<"name">>,
               personal_data_column_names |-> << >>]]

DataSetIds == DOMAIN DataSets

find_data_set(data_set_id) == DataSets[data_set_id]

\* list(data_set.columns.keys())
ColumnKeys(data_set) == [i \in DOMAIN data_set.columns |-> data_set.columns[i].name]

\* column_name in data_set.columns
HasColumn(data_set, column_name) == column_name \in Range(ColumnKeys(data_set))

\* data_set.columns[column_name].type, where the key exists
ColumnType(data_set, column_name) ==
    (CHOOSE c \in Range(data_set.columns) : c.name = column_name).type

-----------------------------------------------------------------------------
(* Quoting (mara_data_explorer/sql.py) *)

QUOTE == "'"
DQUOTE == "\""

RECURSIVE Doubled(_, _)
\* text with every occurrence of the token ch doubled
Doubled(text, ch) ==
    IF text = << >> THEN << >>
    ELSE (IF text[1] = ch THEN <<ch, ch>> ELSE <<text[1]>>) \o Doubled(Tail(text), ch)

quote_identifier(db, name) == <<DQUOTE>> \o Doubled(<<name>>, DQUOTE) \o <<DQUOTE>>

quote_text_literal(db, text) == <<QUOTE>> \o Doubled(text, QUOTE) \o <<QUOTE>>

-----------------------------------------------------------------------------
(* Filter *)

Filter(column_name, operator, value) ==
    [column_name |-> column_name, operator |-> operator, value |-> value]

Filter_to_dict(f) ==
    [column_name |-> f.column_name, operator |-> f.operator, value |-> f.value]

\* Filter(**d)
Filter_from_dict(d) == Filter(d.column_name, d.operator, d.value)

-----------------------------------------------------------------------------
(* Query.__init__ *)

PyNone == [type |-> "NoneType"]
datetime(date, time) == [type |-> "datetime", date |-> date, time |-> time]
str(text) == [type |-> "str", text |-> text]

WordChars == {"Q", "q", "7", "_"}
Lower(ch) == IF ch = "Q" THEN "q" ELSE ch

RECURSIVE SubNonWord(_, _)
\* re.sub(r'\W+', '-', text): every maximal run of non-word characters becomes one '-'
SubNonWord(text, inRun) ==
    IF text = << >> THEN << >>
    ELSE IF text[1] \in WordChars THEN <<text[1]>> \o SubNonWord(Tail(text), FALSE)
    ELSE (IF inRun THEN << >> ELSE <<"-">>) \o SubNonWord(Tail(text), TRUE)

NormalizeQueryId(query_id) ==
    IF query_id = << >> THEN << >>
    ELSE LET subbed == SubNonWord(query_id, FALSE)
         IN [i \in DOMAIN subbed |-> Lower(subbed[i])]

\* column_names as Query.__init__ leaves them: the caller's list when it is
\* not empty, else the default columns that exist, else all columns
EffectiveColumnNames(data_set, column_names) ==
    LET given == column_names
        defaulted == IF given = << >>
                     THEN SelectSeq(data_set.default_column_names,
                                    LAMBDA column : HasColumn(data_set, column))
                     ELSE given
    IN IF defaulted = << >> THEN ColumnKeys(data_set) ELSE defaulted

EffectiveSortColumnName(data_set, sort_column_name) ==
    IF HasColumn(data_set, sort_column_name) THEN sort_column_name ELSE None

\* The mutant keeps every caller-supplied filter.
EffectiveFilters_unchecked(data_set, filters) == filters

EffectiveFilters(data_set, filters) ==
    SelectSeq(filters, LAMBDA f : HasColumn(data_set, f.column_name))

\* kwargs: the keyword arguments of the constructor; a missing column_names,
\* filters or query_id is the empty sequence (the code only tests truthiness)
Query(kwargs) ==
    LET data_set == find_data_set(kwargs.data_set_id)
    IN [data_set         |-> data_set,
        data_set_id      |-> kwargs.data_set_id,
        query_id         |-> NormalizeQueryId(kwargs.query_id),
        column_names     |-> EffectiveColumnNames(data_set, kwargs.column_names),
        sort_column_name |-> EffectiveSortColumnName(data_set, kwargs.sort_column_name),
        sort_order       |-> kwargs.sort_order,
        filters          |-> EffectiveFilters(data_set, kwargs.filters),
        created_at       |-> kwargs.created_at,
        created_by       |-> kwargs.created_by,
        updated_at       |-> kwargs.updated_at,
        updated_by       |-> kwargs.updated_by]

\* the constructor's defaults
DefaultArgs(data_set_id) ==
    [data_set_id |-> data_set_id, query_id |-> << >>, column_names |-> << >>,
     sort_column_name |-> None, sort_order |-> "ASC", filters |-> << >>,
     created_at |-> PyNone, created_by |-> None,
     updated_at |-> PyNone, updated_by |-> None]

-----------------------------------------------------------------------------
(* SQL compiler *)

KeyError == [raised |-> "KeyError"]
Text(tokens) == [raised |-> None, text |-> tokens]

\* ['...' for value in filter.value or ['']]
ValueList(value) == IF value = << >> THEN << << >> >> ELSE value

\* [f"'{value}'" for value in filter.value or ['']]
Apostrophized(value) ==
    [i \in DOMAIN ValueList(value) |-> <<QUOTE>> \o ValueList(value)[i] \o <<QUOTE>>]

filter_to_sql(query, filter) ==
    LET db == query.data_set.database_alias
        column == quote_identifier(db, filter.column_name)
        type == ColumnType(query.data_set, filter.column_name)
        like(value) == <<"lower(">> \o column
                       \o <<") LIKE concat(", QUOTE, "%", QUOTE, ", ">>
                       \o quote_text_literal(db, value)
                       \o <<", ", QUOTE, "%", QUOTE, ")">>
        overlap == column \o <<" && ARRAY[">>
                   \o Join(<<", ">>, Apostrophized(filter.value))
                   \o <<"]::TEXT[]">>
    IN IF ~HasColumn(query.data_set, filter.column_name) THEN KeyError
       ELSE IF type = "text" THEN
            IF filter.operator = "~"
            THEN Text(<<"(">> \o Join(<<" OR ">>, [i \in DOMAIN ValueList(filter.value) |->
                                                like(ValueList(filter.value)[i])])
                      \o <<")">>)
            ELSE Text(column
                      \o <<" ", IF filter.operator = "=" THEN "IN" ELSE "NOT IN", " (">>
                      \o Join(<<", ">>, Apostrophized(filter.value))
                      \o <<")">>)
       ELSE IF type = "text[]" THEN
            IF filter.operator = "!="
            THEN Text(<<" not (">> \o overlap \o <<")">>)
            ELSE Text(overlap)
       ELSE IF type = "number" THEN
            Text(column \o <<" ", filter.operator, " ">> \o filter.value)
       ELSE IF type = "date" THEN
            Text(column \o <<" ", filter.operator, " ", QUOTE>> \o filter.value
                 \o <<QUOTE, " ">>)
       ELSE Text(<<"1=1">>)

\* [self.filter_to_sql(filter) for filter in self.filters]: the first
\* exception ends the comprehension
CompiledFilters(query) ==
    LET compiled == [i \in DOMAIN query.filters |-> filter_to_sql(query, query.filters[i])]
    IN IF \E i \in DOMAIN compiled : compiled[i].raised # None
       THEN KeyError
       ELSE Text([i \in DOMAIN compiled |-> compiled[i].text])

filters_to_sql(query) ==
    IF query.filters # << >>
    THEN LET compiled == CompiledFilters(query)
         IN IF compiled.raised # None THEN compiled
            ELSE Text(<<"WHERE ">> \o Join(<<"\n  AND ">>, compiled.text) \o <<"\n">>)
    ELSE Text(<< >>)

\* FROM "schema"."table"
TableRef(query) ==
    quote_identifier(query.data_set.database_alias, query.data_set.database_schema)
    \o <<".">>
    \o quote_identifier(query.data_set.database_alias, query.data_set.database_table)

LOCK == "U+1F512"   \* the padlock character of the redaction marker

IsRedacted(query, column_name, include_personal_data) ==
    (~include_personal_data)
    /\ column_name \in Range(query.data_set.personal_data_column_names)

\* one entry of the list `columns` of to_sql
SelectItem(query, column_name, decimal_mark, include_personal_data) ==
    LET db == query.data_set.database_alias
    IN IF IsRedacted(query, column_name, include_personal_data)
       THEN Text(quote_identifier(db, LOCK) \o <<" AS ">> \o quote_identifier(db, column_name))
       ELSE IF ~HasColumn(query.data_set, column_name) THEN KeyError
       ELSE IF ColumnType(query.data_set, column_name) = "number" /\ decimal_mark = ","
       THEN Text(<<"REPLACE(", QUOTE, QUOTE, " || ">> \o quote_identifier(db, column_name)
                 \o <<", ", QUOTE, ".", QUOTE, ", ", QUOTE, ",", QUOTE, ")", " AS ">>
                 \o quote_identifier(db, column_name))
       ELSE Text(quote_identifier(db, column_name))

\* The statement is kept clause by clause; the code joins the clauses into
\* one string in this order.
to_sql(query, limit, offset, decimal_mark, include_personal_data) ==
    LET db == query.data_set.database_alias
        items == [i \in DOMAIN query.column_names |->
                    SelectItem(query, query.column_names[i], decimal_mark,
                               include_personal_data)]
        where == filters_to_sql(query)
    IN IF query.column_names # << >>
       THEN IF \E i \in DOMAIN items : items[i].raised # None THEN Raised("to_sql", "KeyError")
            ELSE IF where.raised # None THEN Raised("to_sql", "KeyError")
            ELSE Returned("to_sql", "str",
                    [columns  |-> [i \in DOMAIN items |-> items[i].text],
                     from     |-> TableRef(query),
                     where    |-> where.text,
                     order_by |-> IF query.sort_order # None /\ query.sort_column_name # None
                                  THEN quote_identifier(db, query.sort_column_name)
                                       \o <<" ", query.sort_order, " NULLS LAST">>
                                  ELSE << >>,
                     limit    |-> IF limit # None THEN <<"LIMIT ", limit>> ELSE << >>,
                     offset   |-> IF offset # None THEN <<"OFFSET ", offset>> ELSE << >>])
       ELSE Returned("to_sql", "NoneType", None)

-----------------------------------------------------------------------------
(* execute_query and the calls that use it *)

\* what execute_query(db, sql) may answer for a SELECT of rows
ResultRows == { << >>, << <<"r1">>, <<"r2">> >> }

\* what it may answer for SELECT count(*): one row with one number
CountRows == { << <<0>> >>, << <<2>> >> }

Statement(query, sql) == [db |-> query.data_set.database_alias, sql |-> sql]

CountStatement(query, where) ==
    Statement(query, [columns |-> << <<"count(*)">> >>, from |-> TableRef(query),
                      where |-> where])

\* seq[pos] of a Python list: positions -len .. len-1 exist
HasIndex(seq, pos) == -Len(seq) <= pos /\ pos < Len(seq)
Item(seq, pos) == IF pos >= 0 THEN seq[pos + 1] ELSE seq[Len(seq) + pos + 1]

-----------------------------------------------------------------------------
(* Actions: one per call *)

NewQuery(a) ==
    /\ q = NoQuery
    /\ args' = a
    /\ q' = Query(a)
    /\ call' = [op |-> "__init__"]
    /\ result' = Returned("__init__", "Query", None)
    /\ executed' = << >>
    /\ UNCHANGED <<table, origin, nd, dd>>

ToSql(limit, offset, decimal_mark, include_personal_data) ==
    /\ q # NoQuery
    /\ call' = [op |-> "to_sql", limit |-> limit, offset |-> offset,
                decimal_mark |-> decimal_mark,
                include_personal_data |-> include_personal_data]
    /\ result' = to_sql(q, limit, offset, decimal_mark, include_personal_data)
    /\ executed' = << >>
    /\ UNCHANGED <<args, q, table, origin, nd, dd>>

Run(limit, offset, include_personal_data) ==
    /\ q # NoQuery
    /\ call' = [op |-> "run", limit |-> limit, offset |-> offset,
                include_personal_data |-> include_personal_data]
    /\ IF q.column_names = << >>
       THEN /\ result' = Returned("run", "list", << >>)
            /\ executed' = << >>
       ELSE LET sql == to_sql(q, limit, offset, ".", include_personal_data)
            IN IF sql.kind # "str"
               THEN /\ result' = Raised("run", sql.kind)
                    /\ executed' = << >>
               ELSE \E rows \in ResultRows :
                        /\ result' = Returned("run", "list", rows)
                        /\ executed' = <<Statement(q, sql.value)>>
    /\ UNCHANGED <<args, q, table, origin, nd, dd>>

FilterToSql(pos) ==
    /\ q # NoQuery
    /\ pos \in DOMAIN q.filters
    /\ call' = [op |-> "filter_to_sql", filter |-> q.filters[pos]]
    /\ LET sql == filter_to_sql(q, q.filters[pos])
       IN result' = IF sql.raised # None
                    THEN Raised("filter_to_sql", sql.raised)
                    ELSE Returned("filter_to_sql", "str", sql.text)
    /\ executed' = << >>
    /\ UNCHANGED <<args, q, table, origin, nd, dd>>

RowCount ==
    /\ q # NoQuery
    /\ call' = [op |-> "row_count"]
    /\ LET where == filters_to_sql(q)
       IN IF where.raised # None
          THEN /\ result' = Raised("row_count", where.raised)
               /\ executed' = << >>
          ELSE \E rows \in CountRows :
                   \* execute_query(...)[0][0][0]
                   /\ result' = Returned("row_count", "int", rows[1][1])
                   /\ executed' = <<CountStatement(q, where.text)>>
    /\ UNCHANGED <<args, q, table, origin, nd, dd>>

FilterRowCount(filter_pos) ==
    /\ q # NoQuery
    /\ call' = [op |-> "filter_row_count", filter_pos |-> filter_pos]
    /\ IF ~HasIndex(q.filters, filter_pos)
       THEN /\ result' = Raised("filter_row_count", "IndexError")
            /\ executed' = << >>
       ELSE LET sql == filter_to_sql(q, Item(q.filters, filter_pos))
            IN IF sql.raised # None
               THEN /\ result' = Raised("filter_row_count", sql.raised)
                    /\ executed' = << >>
               ELSE \E rows \in CountRows :
                        \* execute_query(...)[0]
                        /\ result' = Returned("filter_row_count", "list", rows)
                        /\ executed' = <<CountStatement(q, <<"WHERE ">> \o sql.text)>>
    /\ UNCHANGED <<args, q, table, origin, nd, dd>>

-----------------------------------------------------------------------------
(* Specifications of the Query calls *)

NoArgs == [data_set_id |-> None]
NoFrame == [pc |-> "idle"]

Init ==
    /\ args = NoArgs
    /\ q = NoQuery
    /\ call = [op |-> "idle"]
    /\ result = Idle
    /\ executed = << >>
    /\ table = << >>
    /\ origin = "0"
    /\ nd = NoFrame
    /\ dd = NoFrame

\* column names a caller may send: existing ones, personal ones, a stale one
ColumnNameInputs == {"name", "amount", "qty", "bogus"}
SortColumnInputs == {None, "name", "bogus"}
SortOrderInputs == {"ASC", None}
Paging == { <<None, None>>, <<"10", "5">> }

NameIsA == Filter("name", "=", << <<"a">> >>)
BogusIsA == Filter("bogus", "=", << <<"a">> >>)

\* Construction with any column_names, then compilation and execution
NextColumns ==
    \/ \E data_set_id \in DataSetIds,
          column_names \in SeqsUpTo(ColumnNameInputs, MaxColumnNames),
          sort_column_name \in SortColumnInputs,
          sort_order \in SortOrderInputs,
          filters \in { << >>, <<NameIsA>> } :
            NewQuery([DefaultArgs(data_set_id) EXCEPT
                        !.column_names = column_names,
                        !.sort_column_name = sort_column_name,
                        !.sort_order = sort_order,
                        !.filters = filters])
    \/ \E paging \in Paging, decimal_mark \in {".", ","}, include_personal_data \in BOOLEAN :
            ToSql(paging[1], paging[2], decimal_mark, include_personal_data)
    \/ \E include_personal_data \in BOOLEAN :
            Run(None, None, include_personal_data)

Spec == Init /\ [][NextColumns]_vars

\* filters a caller may send on text and text array columns and on a stale column
FilterInputs ==
    { Filter(column_name, operator, value) :
        column_name \in {"name", "tags", "bogus"},
        operator \in {"=", "!="},
        value \in { << >>, << <<"a">> >> } }

FilterPositions == (0 - MaxFilters - 1) .. MaxFilters

\* Construction with any filters, then the calls that compile them
NextFilters ==
    \/ \E data_set_id \in {"ds", "raw"},
          filters \in SeqsUpTo(FilterInputs, MaxFilters) :
            NewQuery([DefaultArgs(data_set_id) EXCEPT !.filters = filters])
    \/ ToSql(None, None, ".", TRUE)
    \/ RowCount
    \/ \E filter_pos \in FilterPositions : FilterRowCount(filter_pos)

SpecFilters == Init /\ [][NextFilters]_vars

\* text values: every string over a harmless character and the single quote
TextValues == SeqsUpTo({"a", QUOTE}, MaxValueLen)

\* Construction with one filter of any value, then its compilation
NextPredicate ==
    \/ \E column_name \in {"name", "tags"},
          operator \in {"~", "=", "!="},
          value \in SeqsUpTo(TextValues, MaxValues) :
            NewQuery([DefaultArgs("ds") EXCEPT
                        !.filters = <<Filter(column_name, operator, value)>>])
    \/ \E column_name \in {"day", "amount", "blob"},
          operator \in {"=", "<"},
          value \in TextValues \cup { <<"4", "2">> } :
            NewQuery([DefaultArgs("ds") EXCEPT
                        !.filters = <<Filter(column_name, operator, value)>>])
    \/ \E pos \in 1..1 : FilterToSql(pos)

SpecPredicate == Init /\ [][NextPredicate]_vars

-----------------------------------------------------------------------------
(* Claims about construction and the SQL compiler *)

RECURSIVE ScanLiterals(_, _, _, _, _)
\* The string literals of an SQL text, as the database reads them: a literal
\* opens at a single quote and closes at the next single quote that is not
\* doubled; a doubled quote inside stands for one quote character.
ScanLiterals(text, i, open, done, cur) ==
    IF i > Len(text) THEN [closed |-> ~open, literals |-> done]
    ELSE IF ~open
         THEN ScanLiterals(text, i + 1, text[i] = QUOTE, done, << >>)
    ELSE IF text[i] # QUOTE
         THEN ScanLiterals(text, i + 1, TRUE, done, Append(cur, text[i]))
    ELSE IF i < Len(text) /\ text[i + 1] = QUOTE
         THEN ScanLiterals(text, i + 2, TRUE, done, Append(cur, QUOTE))
    ELSE ScanLiterals(text, i + 1, FALSE, Append(done, cur), << >>)

RECURSIVE Flatten(_)
Flatten(seqs) == IF seqs = << >> THEN << >> ELSE seqs[1] \o Flatten(Tail(seqs))

\* the literals a predicate must consist of, given the filter it compiles
ExpectedLiterals(type, filter) ==
    IF type = "date" THEN <<filter.value>>
    ELSE IF type = "text" /\ filter.operator = "~"
         THEN Flatten([i \in DOMAIN ValueList(filter.value) |->
                          << <<"%">>, ValueList(filter.value)[i], <<"%">> >>])
    ELSE ValueList(filter.value)

\* C1: the predicate filter_to_sql produces for a filter on a text, text array
\* or date column holds every user-supplied value inside one closed, escaped
\* string literal: read back as SQL, its literals are exactly the values and no
\* quote of a value opens or closes a literal.
C1_ValuesStayInsideLiterals ==
    (call.op = "filter_to_sql" /\ result.kind = "str"
        /\ ColumnType(q.data_set, call.filter.column_name) \in {"text", "text[]", "date"})
    => LET type == ColumnType(q.data_set, call.filter.column_name)
           scan == ScanLiterals(result.value, 1, FALSE, << >>, << >>)
       IN scan.closed /\ scan.literals = ExpectedLiterals(type, call.filter)

InSchema(query, names) == SelectSeq(names, LAMBDA name : HasColumn(query.data_set, name))

\* C2: after construction every entry of column_names is a column of the data
\* set: the supplied names restricted to the schema, else the default columns
\* restricted to the schema, else all columns in schema order.
C2_ColumnNamesInSchema ==
    q # NoQuery
    => /\ \A i \in DOMAIN q.column_names : HasColumn(q.data_set, q.column_names[i])
       /\ LET explicit == InSchema(q, args.column_names)
              defaults == InSchema(q, q.data_set.default_column_names)
          IN q.column_names = IF args.column_names # << >> /\ explicit # << >> THEN explicit
                              ELSE IF defaults # << >> THEN defaults
                              ELSE ColumnKeys(q.data_set)

\* positions of the supplied filters whose column is in the schema
KeptPositions == {i \in DOMAIN args.filters : HasColumn(q.data_set, args.filters[i].column_name)}

\* C3: a constructed Query's filters are exactly the supplied filters on schema
\* columns in their original order, construction having raised nothing, and
\* compiling any of them never looks up a missing column.
C3_FiltersProjected ==
    q # NoQuery
    => /\ Len(q.filters) = Cardinality(KeptPositions)
       /\ \A k \in DOMAIN q.filters :
            \E i \in KeptPositions :
                /\ Cardinality({j \in KeptPositions : j < i}) = k - 1
                /\ q.filters[k] = args.filters[i]
       /\ \A k \in DOMAIN q.filters : filter_to_sql(q, q.filters[k]).raised = None
       /\ result.kind # "KeyError"

\* a stale filter was dropped between two kept ones and the rest compiled
C3_Witness ==
    /\ q # NoQuery
    /\ Len(args.filters) = MaxFilters
    /\ Len(q.filters) = MaxFilters - 1
    /\ args.filters[1].column_name = "bogus"
    /\ call.op = "row_count"
    /\ result.kind = "int"

\* the select item's output name: the identifier that closes the item
ItemName(item) == item[Len(item) - 1]

\* the select item's source expression: what precedes AS, or the whole item
ItemSource(item) ==
    IF \E k \in DOMAIN item : item[k] = " AS "
    THEN SubSeq(item, 1, (CHOOSE k \in DOMAIN item : item[k] = " AS ") - 1)
    ELSE item

\* C4: without personal data, to_sql emits one SELECT item per entry of
\* column_names, in order and named as the column; a personal data column's
\* source is the redaction marker and never the column, any other column is
\* projected itself (through the comma-decimal cast for a number column).
C4_PersonalDataRedacted ==
    (call.op = "to_sql" /\ ~call.include_personal_data /\ q.column_names # << >>)
    => /\ result.kind = "str"
       /\ Len(result.value.columns) = Len(q.column_names)
       /\ \A i \in DOMAIN q.column_names :
            LET item == result.value.columns[i]
                name == q.column_names[i]
            IN /\ ItemName(item) = name
               /\ IF name \in Range(q.data_set.personal_data_column_names)
                  THEN /\ ItemSource(item) = <<DQUOTE, LOCK, DQUOTE>>
                       /\ name \notin Range(ItemSource(item))
                  ELSE /\ name \in Range(ItemSource(item))
                       /\ LOCK \notin Range(item)
                       /\ (ItemSource(item) # item)
                            <=> (ColumnType(q.data_set, name) = "number"
                                    /\ call.decimal_mark = ",")

\* C9: filter_row_count counts with only the filter at the given index and
\* returns an integer like row_count; an index outside 0..len(filters)-1
\* raises an index error and no statement reaches the executor.
C9_FilterRowCount ==
    call.op = "filter_row_count"
    => IF 0 <= call.filter_pos /\ call.filter_pos < Len(q.filters)
       THEN /\ result.kind = "int"
            /\ Len(executed) = 1
            /\ executed[1].sql.where
                 = <<"WHERE ">> \o filter_to_sql(q, q.filters[call.filter_pos + 1]).text
       ELSE /\ result.kind = "IndexError"
            /\ executed = << >>

\* C10: with empty column_names to_sql returns none and run returns an empty
\* sequence without calling the executor; with column_names to_sql returns SQL
\* text and run makes exactly one executor call.
C10_EmptyQuery ==
    /\ call.op = "to_sql"
       => result.kind = (IF q.column_names = << >> THEN "NoneType" ELSE "str")
    /\ call.op = "run"
       => IF q.column_names = << >>
          THEN result.kind = "list" /\ result.value = << >> /\ executed = << >>
          ELSE result.kind = "list" /\ Len(executed) = 1

-----------------------------------------------------------------------------
(* Serialization *)

AttributeError == [raised |-> "AttributeError"]

\* value.strftime('%Y-%m-%d') if value else None
FormattedDate(value) ==
    IF value.type = "NoneType" THEN [raised |-> None, value |-> PyNone]
    ELSE IF value.type = "datetime" THEN [raised |-> None, value |-> str(value.date)]
    ELSE AttributeError    \* a non-empty str has no strftime

to_dict(query) ==
    LET created_at == FormattedDate(query.created_at)
        updated_at == FormattedDate(query.updated_at)
    IN IF created_at.raised # None \/ updated_at.raised # None
       THEN Raised("to_dict", "AttributeError")
       ELSE Returned("to_dict", "dict",
                [data_set_id      |-> query.data_set.id,
                 query_id         |-> query.query_id,
                 column_names     |-> query.column_names,
                 sort_column_name |-> query.sort_column_name,
                 sort_order       |-> query.sort_order,
                 filters          |-> [i \in DOMAIN query.filters |->
                                          Filter_to_dict(query.filters[i])],
                 created_at       |-> created_at.value,
                 created_by       |-> query.created_by,
                 updated_at       |-> updated_at.value,
                 updated_by       |-> query.updated_by])

\* Query(**d) after d['filters'] = [Filter.from_dict(f) for f in d['filters']]
from_dict(d) ==
    Query([d EXCEPT !.filters = [i \in DOMAIN d.filters |-> Filter_from_dict(d.filters[i])]])

ToDict ==
    /\ q # NoQuery
    /\ call' = [op |-> "to_dict"]
    /\ result' = to_dict(q)
    /\ executed' = << >>
    /\ UNCHANGED <<args, q, table, origin, nd, dd>>

\* Query.from_dict on the dict the last to_dict returned
FromDict ==
    /\ result.op = "to_dict" /\ result.kind = "dict"
    /\ call' = [op |-> "from_dict", d |-> result.value]
    /\ result' = Returned("from_dict", "Query", from_dict(result.value))
    /\ executed' = << >>
    /\ UNCHANGED <<args, q, table, origin, nd, dd>>

\* to_dict on the Query the last from_dict returned
ToDictAgain ==
    /\ result.op = "from_dict"
    /\ call' = [op |-> "to_dict_again", query |-> result.value]
    /\ result' = to_dict(result.value)
    /\ executed' = << >>
    /\ UNCHANGED <<args, q, table, origin, nd, dd>>

\* Filter.from_dict(filter.to_dict()) for one filter of the query
FilterRoundTrip(pos) ==
    /\ q # NoQuery
    /\ pos \in DOMAIN q.filters
    /\ call' = [op |-> "Filter.from_dict", filter |-> q.filters[pos]]
    /\ result' = Returned("Filter.from_dict", "Filter",
                          Filter_from_dict(Filter_to_dict(q.filters[pos])))
    /\ executed' = << >>
    /\ UNCHANGED <<args, q, table, origin, nd, dd>>

QueryIdInputs == { << >>, <<"Q", "!", " ", "q">>, <<"7", "_">>, <<"-", "Q">> }
TimestampInputs == { PyNone, datetime("2020-01-02", "03:04:05") }
UserInputs == { None, "ann@example.com" }

NextSerialize ==
    \/ \E data_set_id \in DataSetIds,
          query_id \in QueryIdInputs,
          column_names \in { << >>, <<"qty">>, <<"name", "bogus">> },
          sort_column_name \in SortColumnInputs,
          sort_order \in SortOrderInputs,
          filters \in { << >>, <<NameIsA>>, <<BogusIsA, NameIsA>> },
          created_at \in TimestampInputs,
          updated_at \in TimestampInputs,
          user \in UserInputs :
            NewQuery([data_set_id |-> data_set_id, query_id |-> query_id,
                      column_names |-> column_names,
                      sort_column_name |-> sort_column_name, sort_order |-> sort_order,
                      filters |-> filters,
                      created_at |-> created_at, created_by |-> user,
                      updated_at |-> updated_at, updated_by |-> user])
    \/ ToDict
    \/ FromDict
    \/ ToDictAgain
    \/ \E pos \in 1..MaxFilters : FilterRoundTrip(pos)

SpecSerialize == Init /\ [][NextSerialize]_vars

\* C8: Filter.from_dict(f.to_dict()) equals f, Query.from_dict(q.to_dict())
\* equals q field by field, audit timestamps included, and the Query that
\* comes back can be serialized again.
C8_RoundTrip ==
    /\ call.op = "Filter.from_dict" => result.value = call.filter
    /\ call.op = "to_dict" => result.kind = "dict"
    /\ call.op = "from_dict" => result.value = q
    /\ call.op = "to_dict_again" => result.kind = "dict"

-----------------------------------------------------------------------------
(* number_distribution *)
(*                                                                         *)
(* Numbers are decimal.Decimal values; the model keeps a number x as the   *)
(* integer x * 10^(DecimalPlaces + 1).  Two different values of a table    *)
(* differ by at least 10^-DecimalPlaces, so the loop never goes below the  *)
(* exponent -(DecimalPlaces + 1) and every quantity it computes is an      *)
(* integer in this unit.                                                   *)
(*                                                                         *)
(* 10^16 is beyond the integers of the model.  A column of values near     *)
(* 10^16 has the origin "10^16": the table keeps the distance x >= 0 of    *)
(* each value 10^16 + x, the bucket bounds are kept as distances too, and  *)
(* min_ and max_ at an exponent of at most 16 are counted from             *)
(* 10^(16 - exponent), which is an integer.                                *)
(*                                                                         *)
(* The arithmetic of decimal.Decimal rounds each result to the 28          *)
(* significant digits of the default context.  The numbers with the        *)
(* origins "0" and "10^16" stay below 28 digits at every exponent the loop *)
(* visits.  A column with the origin "10^30" holds values 10^30 + x of 31  *)
(* digits: abs(10^30 + x) and (10^30 + x) / 10^exponent are rounded to     *)
(* 10^30 and to 10^(30 - exponent), and min_ and max_ are counted from     *)
(* 10^(30 - exponent).                                                     *)

RECURSIVE Pow10(_)
Pow10(n) == IF n = 0 THEN 1 ELSE 10 * Pow10(n - 1)

\* pow(_10, exponent)
pow(exponent) == Pow10(exponent + DecimalPlaces + 1)

\* the Decimal of an integer literal
Dec(n) == n * pow(0)

abs(x) == IF x < 0 THEN 0 - x ELSE x

\* Powers of ten above this exponent are not computed: they exceed every
\* distance from the origin "10^16" that the model holds.
TopExponent == 5 - DecimalPlaces

\* math.floor(x / pow(_10, exponent))
floor(x, exponent) ==
    IF origin = "0" THEN x \div pow(exponent)
    ELSE IF origin = "10^30" THEN 0           \* the quotient is 10^(30 - exponent)
    ELSE IF exponent > 16 THEN 0              \* 0 < (10^16 + x) / 10^exponent < 1
    ELSE IF exponent > TopExponent THEN 0     \* 0 <= x / 10^exponent < 1
    ELSE x \div pow(exponent)

\* math.ceil(x / pow(_10, exponent))
ceil(x, exponent) ==
    IF origin = "0" THEN 0 - ((0 - x) \div pow(exponent))
    ELSE IF origin = "10^30" THEN 0           \* the quotient is 10^(30 - exponent)
    ELSE IF exponent > 16 THEN 1
    ELSE IF exponent > TopExponent THEN (IF x > 0 THEN 1 ELSE 0)
    ELSE 0 - ((0 - x) \div pow(exponent))

\* x != 0
NonZero(x) == origin # "0" \/ x # 0

\* math.ceil(abs(x).log10()) for x != 0: the least e with 10^e >= |x|
CeilLog10(x) ==
    IF origin = "0"
    THEN CHOOSE e \in (0 - DecimalPlaces - 1) .. TopExponent :
            /\ pow(e) >= abs(x)
            /\ e > (0 - DecimalPlaces - 1) => pow(e - 1) < abs(x)
    ELSE IF origin = "10^30" THEN 30          \* abs(x) is 10^30
    ELSE IF x = 0 THEN 16 ELSE 17

Max(a, b) == IF a >= b THEN a ELSE b

\* float(x) of a Decimal: the nearest binary64 number, a tie going to the
\* even mantissa; the statement prints it and the executor reads it back as
\* the same number.  A decimal of at most 15 significant digits goes through
\* unchanged, and every number with the origin "0" is one.  Between 2^53 and
\* 2^54, where 10^16 lies, the binary64 numbers are the even integers, and
\* 10^16 / 2 is even, so 10^16 + 2k has an even mantissa exactly when k is
\* even.  Around 10^30 the binary64 numbers are 2^47 apart, and every value of
\* the model converts to the one that prints as 1e+30.
float(x) ==
    IF origin = "0" THEN x
    ELSE IF origin = "10^30" THEN "1e+30"
    ELSE LET step == 2 * pow(0)
             below == (x \div step) * step
         IN IF 2 * (x - below) < step THEN below
            ELSE IF 2 * (x - below) > step THEN below + step
            ELSE IF (below \div step) % 2 = 0 THEN below
            ELSE below + step

min_buckets == 5

\* math.ceil(max(log10|min| if min != 0 else 0, log10|max| if max != 0 else 0))
InitialExponent(min_value, max_value) ==
    Max(IF NonZero(min_value) THEN CeilLog10(min_value) ELSE 0,
        IF NonZero(max_value) THEN CeilLog10(max_value) ELSE 0)

\* The mutant stops at min_buckets buckets already.
EnoughBuckets_inclusive(min_, max_) == (max_ - min_) >= min_buckets

EnoughBuckets(min_, max_) == (max_ - min_) > min_buckets

BucketMinValue(min_, bucket, exponent) == float((min_ + bucket) * pow(exponent))

BucketMaxValue(min_, bucket, exponent) == float((min_ + bucket + 1) * pow(exponent))

\* buckets = [(bucket, min, max) for bucket in range(0, max_ - min_)]
Buckets(min_, max_, exponent) ==
    [k \in 1 .. (max_ - min_) |->
        [bucket |-> k - 1,
         lower  |-> BucketMinValue(min_, k - 1, exponent),
         upper  |-> BucketMaxValue(min_, k - 1, exponent)]]

\* the WHEN column <= bucket_max_value THEN bucket branches of the statement
WhenBranches(min_, max_, exponent) ==
    [k \in 1 .. (max_ - min_) |->
        [le |-> BucketMaxValue(min_, k - 1, exponent), then |-> k - 1]]

SqlNull == 0 - 1    \* the bucket of a row no WHEN branch takes

RECURSIVE FirstBranch(_, _, _)
\* the branches of a CASE are tried in order from branch k on
FirstBranch(value, branches, k) ==
    IF k > Len(branches) THEN SqlNull
    ELSE IF value <= branches[k].le THEN branches[k].then
    ELSE FirstBranch(value, branches, k + 1)

\* CASE WHEN ... END of one row: the first branch whose condition holds
CaseOf(value, branches) == FirstBranch(value, branches, 1)

RECURSIVE Ascending(_)
\* the members of a finite set of integers in ascending order
Ascending(S) ==
    IF S = {} THEN << >>
    ELSE LET least == CHOOSE x \in S : \A y \in S : x <= y
         IN <<least>> \o Ascending(S \ {least})

\* SELECT CASE ... END AS bucket, count(*) AS n ... GROUP BY bucket ORDER BY
\* bucket, over the table; the NULL group sorts last
GroupedCounts(rows, branches) ==
    LET bucketOf == [i \in DOMAIN rows |-> CaseOf(rows[i], branches)]
        found == Range(bucketOf)
        order == Ascending(found \ {SqlNull})
                 \o (IF SqlNull \in found THEN <<SqlNull>> ELSE << >>)
    IN [k \in DOMAIN order |->
          [bucket |-> order[k],
           n |-> Cardinality({i \in DOMAIN rows : bucketOf[i] = order[k]})]]

\* SELECT min(column), max(column), count(*): the table is kept ascending
MinOf(rows) == rows[1]
MaxOf(rows) == rows[Len(rows)]

NumberColumn == "qty"

\* the call up to the loop: the statistics statement and the two early returns
NumberDistributionBegin ==
    /\ nd.pc = "idle"
    /\ call' = [op |-> "number_distribution", column_name |-> NumberColumn]
    /\ executed' = <<Statement(q, [columns |-> << <<"min(">>, <<"max(">>, <<"count(*)">> >>,
                                  from |-> TableRef(q),
                                  where |-> CompiledFilters(q).text])>>
    /\ IF table = << >>
       THEN /\ result' = Returned("number_distribution", "list", << >>)
            /\ nd' = [pc |-> "done", path |-> "empty"]
       ELSE IF MinOf(table) = MaxOf(table)
       THEN /\ result' = Returned("number_distribution", "list",
                            << [lower |-> float(MinOf(table)),
                                upper |-> float(MaxOf(table)),
                                n     |-> Len(table)] >>)
            /\ nd' = [pc |-> "done", path |-> "single"]
       ELSE /\ result' = Idle
            /\ nd' = [pc |-> "loop",
                      min_value |-> MinOf(table), max_value |-> MaxOf(table),
                      number_of_values |-> Len(table),
                      exponent |-> InitialExponent(MinOf(table), MaxOf(table)),
                      decrements |-> 0]
    /\ UNCHANGED <<args, q, table, origin, dd>>

\* one pass of `while True` (the locals are bound by \E over singletons, so
\* that each is computed once)
NumberDistributionStep ==
    /\ nd.pc = "loop"
    /\ \E min_ \in {floor(nd.min_value, nd.exponent)},
          max_ \in {ceil(nd.max_value, nd.exponent)} :
         IF EnoughBuckets(min_, max_)
         THEN \E buckets \in {Buckets(min_, max_, nd.exponent)},
                 branches \in {WhenBranches(min_, max_, nd.exponent)} :
              \E grouped \in {GroupedCounts(table, branches)} :
                /\ executed' = Append(executed,
                                 Statement(q, [case |-> branches, from |-> TableRef(q),
                                               where |-> CompiledFilters(q).text]))
                /\ nd' = [pc |-> "done", path |-> "buckets",
                          min_value |-> nd.min_value, max_value |-> nd.max_value,
                          exponent |-> nd.exponent, decrements |-> nd.decrements,
                          min_ |-> min_, max_ |-> max_,
                          buckets |-> buckets]
                /\ result' =
                     IF \E k \in DOMAIN grouped : grouped[k].bucket = SqlNull
                     THEN Raised("number_distribution", "TypeError")   \* min_ + None
                     ELSE Returned("number_distribution", "list",
                             [k \in DOMAIN grouped |->
                                 [lower |-> BucketMinValue(min_, grouped[k].bucket, nd.exponent),
                                  upper |-> BucketMaxValue(min_, grouped[k].bucket, nd.exponent),
                                  n     |-> grouped[k].n]])
         ELSE /\ nd.decrements < MaxDecrements
              /\ nd' = [nd EXCEPT !.exponent = @ - 1, !.decrements = @ + 1]
              /\ UNCHANGED <<executed, result>>
    /\ UNCHANGED <<args, q, call, table, origin, dd>>

\* decimal.Overflow: the quotient 10^(30 - exponent) exceeds the largest
\* exponent 999999 of the context
Overflow == "Overflow"

\* The passes after the first MaxDecrements of a column with the origin
\* "10^30", taken together: in each of them min_ and max_ are both
\* 10^(30 - exponent), so each decrements the exponent, until at the exponent
\* -999970 the division of line 288 raises decimal.Overflow.
NumberDistributionRunOn ==
    /\ nd.pc = "loop"
    /\ origin = "10^30"
    /\ nd.decrements = MaxDecrements
    /\ ~EnoughBuckets(floor(nd.min_value, nd.exponent), ceil(nd.max_value, nd.exponent))
    /\ nd' = [pc |-> "done", path |-> "raised",
              min_value |-> nd.min_value, max_value |-> nd.max_value,
              exponent |-> 0 - 999970, decrements |-> 1000000]
    /\ result' = Raised("number_distribution", Overflow)
    /\ UNCHANGED <<args, q, call, executed, table, origin, dd>>

\* number values: m * 10^k for small m at two decimal scales and in the
\* hundreds, and values a few smallest steps above 100
NumberInputs ==
    { m * pow(k) : m \in (0 - MaxMantissa) .. MaxMantissa,
                   k \in {0 - DecimalPlaces, 0, 2} }
    \cup { Dec(100) + m * pow(0 - DecimalPlaces) : m \in 1 .. MaxMantissa }

\* distances from 10^16: 10^16, 10^16 + 1, ...
LargeNumberInputs == { Dec(m) : m \in 0 .. MaxMantissa }

RECURSIVE AscendingTables(_, _)
\* the ascending sequences of length n of the given values
AscendingTables(n, values) ==
    IF n = 0 THEN { << >> }
    ELSE UNION { { Append(t, v) : v \in {x \in values : t = << >> \/ x >= t[Len(t)]} }
                 : t \in AscendingTables(n - 1, values) }

\* the example of the specification: 1, 5, 9, 950, 1000
ExampleTable == <<Dec(1), Dec(5), Dec(9), Dec(950), Dec(1000)>>

InitNumber ==
    /\ args = DefaultArgs("raw")
    /\ q = Query(DefaultArgs("raw"))
    /\ call = [op |-> "__init__"]
    /\ result = Idle
    /\ executed = << >>
    /\ \/ /\ origin = "0"
          /\ table \in UNION { AscendingTables(n, NumberInputs) : n \in 0 .. MaxRows }
                       \cup { ExampleTable }
       \/ /\ origin \in {"10^16", "10^30"}
          /\ table \in UNION { AscendingTables(n, LargeNumberInputs) : n \in 1 .. MaxRows }
    /\ nd = NoFrame
    /\ dd = NoFrame

NextNumber ==
    \/ NumberDistributionBegin
    \/ NumberDistributionStep
    \/ NumberDistributionRunOn

SpecNumber == InitNumber /\ [][NextNumber]_vars

\* tables of at most two rows: no value, a single value, a minimum and a maximum
InitNumberPairs ==
    /\ args = DefaultArgs("raw")
    /\ q = Query(DefaultArgs("raw"))
    /\ call = [op |-> "__init__"]
    /\ result = Idle
    /\ executed = << >>
    /\ \/ /\ origin = "0"
          /\ table \in UNION { AscendingTables(n, NumberInputs) : n \in 0 .. 2 }
       \/ /\ origin \in {"10^16", "10^30"}
          /\ table \in UNION { AscendingTables(n, LargeNumberInputs) : n \in 1 .. 2 }
    /\ nd = NoFrame
    /\ dd = NoFrame

\* the interpreter runs a call to its end
SpecNumberFair == InitNumberPairs /\ [][NextNumber]_vars /\ WF_vars(NextNumber)

-----------------------------------------------------------------------------
(* Claims about number_distribution *)

RECURSIVE SumOfCounts(_)
SumOfCounts(rows) == IF rows = << >> THEN 0 ELSE rows[1].n + SumOfCounts(Tail(rows))

\* the value lies in the returned bucket: above its lower bound and at most
\* its upper bound; the first bucket of the range holds its lower bound too
Holds(row, value) ==
    /\ value <= row.upper
    /\ \/ row.lower < value
       \/ row.lower = nd.buckets[1].lower /\ row.lower = value

\* C5: with min < max every value of the table falls into exactly one of the
\* buckets 0 .. max_ - min_ - 1 and never into the null bucket, the bounds
\* returned for its bucket contain it, each returned count is the number of
\* values in those bounds, and the counts add up to the number of values.
C5_EveryValueInOneBucket ==
    (nd.pc = "done" /\ nd.path = "buckets")
    => /\ result.kind = "list"
       /\ Len(executed[2].sql.case) = nd.max_ - nd.min_
       /\ \A i \in DOMAIN table :
            /\ CaseOf(table[i], executed[2].sql.case) \in 0 .. (nd.max_ - nd.min_ - 1)
            /\ Cardinality({k \in DOMAIN result.value : Holds(result.value[k], table[i])}) = 1
       /\ \A k \in DOMAIN result.value :
            result.value[k].n
              = Cardinality({i \in DOMAIN table : Holds(result.value[k], table[i])})
       /\ SumOfCounts(result.value) = Len(table)

\* the example 1, 5, 9, 950, 1000: buckets of width 100, counts 3 and 2
C5_Witness ==
    /\ table = ExampleTable
    /\ nd.pc = "done" /\ nd.path = "buckets"
    /\ result.kind = "list"
    /\ result.value = << [lower |-> Dec(0),   upper |-> Dec(100),  n |-> 3],
                         [lower |-> Dec(900), upper |-> Dec(1000), n |-> 2] >>

\* C6: when the loop stops it has defined max_ - min_ >= 6 contiguous buckets
\* of width 10^exponent whose bounds are multiples of 10^exponent, bucket i
\* running from (min_ + i) * 10^exponent to (min_ + i + 1) * 10^exponent, the
\* first starting at or below min and the last ending at or above max.
C6_BucketsCoverRange ==
    (nd.pc = "done" /\ nd.path = "buckets")
    => LET buckets == nd.buckets
           width == pow(nd.exponent)
       IN /\ Len(buckets) = nd.max_ - nd.min_
          /\ Len(buckets) >= 6
          /\ \A k \in DOMAIN buckets :
                /\ buckets[k].upper - buckets[k].lower = width
                /\ buckets[k].lower % width = 0
                /\ buckets[k].upper % width = 0
                /\ buckets[k].lower = (nd.min_ + (k - 1)) * width
                /\ k > 1 => buckets[k].lower = buckets[k - 1].upper
          /\ buckets[1].lower <= nd.min_value
          /\ buckets[Len(buckets)].upper >= nd.max_value

\* a range across zero, reached after decrements, whose first bucket starts
\* strictly below the least value
C6_Witness ==
    /\ nd.pc = "done" /\ nd.path = "buckets"
    /\ nd.min_value < 0 /\ nd.max_value > 0
    /\ nd.decrements > 0
    /\ Len(nd.buckets) > 6
    /\ nd.buckets[1].lower < nd.min_value
    /\ nd.buckets[Len(nd.buckets)].upper = nd.max_value

\* what a finished call owes its table: nothing for no value, one bucket for
\* a single value, and for min < max an exponent with more than 5 buckets
ProperOutcome ==
    /\ nd.pc = "done"
    /\ IF table = << >>
       THEN result = Returned("number_distribution", "list", << >>)
       ELSE IF MinOf(table) = MaxOf(table)
       THEN result = Returned("number_distribution", "list",
                              << [lower |-> float(MinOf(table)),
                                  upper |-> float(MaxOf(table)),
                                  n     |-> Len(table)] >>)
       ELSE /\ nd.path = "buckets"
            /\ nd.max_ - nd.min_ > 5
            /\ nd.decrements <= MaxDecrements

\* C11: number_distribution terminates for every minimum and maximum: with
\* the empty sequence when there is no value, with a single bucket when
\* min = max, and for min < max after finitely many decrements at an exponent
\* with max_ - min_ > 5.
C11_Terminates == <>ProperOutcome

-----------------------------------------------------------------------------
(* date_distribution *)
(*                                                                         *)
(* A date is [year, month, day].  The dates of the model have day <= 28,   *)
(* so that adding months or years to a date never clips the day.           *)

Date(year, month, day) == [year |-> year, month |-> month, day |-> day]

IsLeap(year) == (year % 4 = 0 /\ year % 100 # 0) \/ year % 400 = 0

DaysInMonth(year, month) ==
    IF month = 2 THEN (IF IsLeap(year) THEN 29 ELSE 28)
    ELSE IF month \in {4, 6, 9, 11} THEN 30 ELSE 31

DaysBeforeYear(year) ==
    LET y == year - 1 IN (y * 365) + (y \div 4) - (y \div 100) + (y \div 400)

RECURSIVE DaysBeforeMonth(_, _)
DaysBeforeMonth(year, month) ==
    IF month = 1 THEN 0
    ELSE DaysBeforeMonth(year, month - 1) + DaysInMonth(year, month - 1)

\* date.toordinal()
ToOrdinal(date) == DaysBeforeYear(date.year) + DaysBeforeMonth(date.year, date.month) + date.day

\* date.fromordinal(n)
FromOrdinal(n) ==
    LET year == CHOOSE y \in 2018 .. (2020 + MaxYearSpan) :
                    DaysBeforeYear(y) < n /\ n <= DaysBeforeYear(y + 1)
        month == CHOOSE m \in 1 .. 12 :
                    /\ DaysBeforeYear(year) + DaysBeforeMonth(year, m) < n
                    /\ n <= DaysBeforeYear(year) + DaysBeforeMonth(year, m)
                            + DaysInMonth(year, m)
    IN Date(year, month, n - DaysBeforeYear(year) - DaysBeforeMonth(year, month))

\* date.weekday(): Monday is 0
Weekday(date) == (ToOrdinal(date) + 6) % 7

\* a <= b on dates
NotAfter(a, b) == ToOrdinal(a) <= ToOrdinal(b)

\* date.shift(years=i), shift(months=i), shift(weeks=i), shift(days=i)
Shift(date, frame, i) ==
    IF frame = "year" THEN Date(date.year + i, date.month, date.day)
    ELSE IF frame = "month"
         THEN LET months == date.year * 12 + (date.month - 1) + i
              IN Date(months \div 12, (months % 12) + 1, date.day)
    ELSE IF frame = "week" THEN FromOrdinal(ToOrdinal(date) + 7 * i)
    ELSE FromOrdinal(ToOrdinal(date) + i)

RECURSIVE RangeFrom(_, _, _, _)
\* arrow.Arrow.range(frame, start, end): start, start + 1 frame, ... up to end
RangeFrom(frame, start, end, i) ==
    IF NotAfter(Shift(start, frame, i), end)
    THEN <<Shift(start, frame, i)>> \o RangeFrom(frame, start, end, i + 1)
    ELSE << >>

ArrowRange(frame, start, end) == RangeFrom(frame, start, end, 0)

\* date.floor(frame)
Floor(date, frame) ==
    IF frame = "year" THEN Date(date.year, 1, 1)
    ELSE IF frame = "month" THEN Date(date.year, date.month, 1)
    ELSE IF frame = "week" THEN FromOrdinal(ToOrdinal(date) - Weekday(date))
    ELSE date

\* the period starts of arrow.Arrow.span_range(frame, start, end)
SpanStarts(frame, start, end) == ArrowRange(frame, Floor(start, frame), end)

\* resolutions, in the order of the dict
resolutions ==
    << [name |-> "year",  format |-> "%Y"],
       [name |-> "month", format |-> "%Y %b"],
       [name |-> "week",  format |-> "%Y - CW %U"],
       [name |-> "day",   format |-> "%a, %d %b %Y"] >>

date_min_buckets == 5

\* The mutant asks for more than min_buckets periods.
SufficientPeriods_strict(frame, min_value, max_value) ==
    Len(ArrowRange(frame, min_value, max_value)) > date_min_buckets

SufficientPeriods(frame, min_value, max_value) ==
    Len(ArrowRange(frame, min_value, max_value)) >= date_min_buckets

RECURSIVE ChosenFrom(_, _, _)
\* for resolution in resolutions.keys(): if ...: break -- the loop variable
\* keeps the last key when no resolution breaks the loop
ChosenFrom(k, min_value, max_value) ==
    IF k = Len(resolutions) THEN k
    ELSE IF SufficientPeriods(resolutions[k].name, min_value, max_value) THEN k
    ELSE ChosenFrom(k + 1, min_value, max_value)

ChosenResolution(min_value, max_value) == resolutions[ChosenFrom(1, min_value, max_value)]

\* min_.strftime(format), kept as the format and the date it is applied to
Label(format, date) == [strftime |-> format, of |-> date]

RECURSIVE LatestStart(_, _, _)
\* CASE WHEN column >= DATE start ... END with the starts scanned from the
\* latest (position k) to the earliest; 0 when no branch takes the row
LatestStart(value, starts, k) ==
    IF k = 0 THEN 0
    ELSE IF NotAfter(starts[k], value) THEN k
    ELSE LatestStart(value, starts, k - 1)

\* ... GROUP BY d, label ORDER BY d over the table
GroupedDates(rows, starts, format) ==
    LET startOf == [i \in DOMAIN rows |-> LatestStart(rows[i], starts, Len(starts))]
        order == Ascending(Range(startOf))
    IN [k \in DOMAIN order |->
          [d     |-> IF order[k] = 0 THEN PyNone ELSE starts[order[k]],
           label |-> IF order[k] = 0 THEN PyNone ELSE Label(format, starts[order[k]]),
           n     |-> Cardinality({i \in DOMAIN rows : startOf[i] = order[k]})]]

DateColumn == "day"

\* The whole call: the statistics statement, the choice of the resolution,
\* the bucket statement and its rows.
DateDistribution ==
    /\ dd.pc = "idle"
    /\ call' = [op |-> "date_distribution", column_name |-> DateColumn]
    /\ IF table = << >>
       THEN /\ executed' = <<Statement(q, [columns |-> << <<"min(">>, <<"max(">> >>,
                                           from |-> TableRef(q),
                                           where |-> CompiledFilters(q).text])>>
            /\ result' = Returned("date_distribution", "list", << >>)
            /\ dd' = [pc |-> "done", path |-> "empty"]
       ELSE \E resolution \in {ChosenResolution(MinOf(table), MaxOf(table))} :
            \E starts \in {SpanStarts(resolution.name,
                                      Floor(MinOf(table), resolution.name),
                                      Floor(MaxOf(table), resolution.name))} :
              /\ executed' =
                   <<Statement(q, [columns |-> << <<"min(">>, <<"max(">> >>,
                                   from |-> TableRef(q),
                                   where |-> CompiledFilters(q).text]),
                     Statement(q, [case |-> [k \in DOMAIN starts |->
                                               [ge |-> starts[Len(starts) + 1 - k],
                                                then |-> starts[Len(starts) + 1 - k]]],
                                   label |-> [k \in DOMAIN starts |->
                                               [ge |-> starts[Len(starts) + 1 - k],
                                                then |-> Label(resolution.format,
                                                               starts[Len(starts) + 1 - k])]],
                                   from |-> TableRef(q),
                                   where |-> CompiledFilters(q).text])>>
              /\ result' = Returned("date_distribution", "list",
                                    GroupedDates(table, starts, resolution.format))
              /\ dd' = [pc |-> "done", path |-> "buckets",
                        min_value |-> MinOf(table), max_value |-> MaxOf(table),
                        resolution |-> resolution.name]
    /\ UNCHANGED <<args, q, table, origin, nd>>

DateInputs ==
    { Date(year, month, day) : year \in 2019 .. (2019 + MaxYearSpan),
                               month \in {1, 2, 5, 6, 12},
                               day \in {1, 3, 15, 28} }

\* a range of 400 days
ExampleDates == <<Date(2019, 1, 1), Date(2020, 2, 5)>>

InitDate ==
    /\ args = DefaultArgs("ds")
    /\ q = Query(DefaultArgs("ds"))
    /\ call = [op |-> "__init__"]
    /\ result = Idle
    /\ executed = << >>
    /\ table \in { << >>, ExampleDates }
                 \cup { <<a>> : a \in DateInputs }
                 \cup { pair \in DateInputs \X DateInputs : NotAfter(pair[1], pair[2]) }
    /\ origin = "0"
    /\ nd = NoFrame
    /\ dd = NoFrame

NextDate == DateDistribution

SpecDate == InitDate /\ [][NextDate]_vars

-----------------------------------------------------------------------------
(* Claims about date_distribution *)

\* the number of dates min, min + 1 period, min + 2 periods, ... up to max
Periods(frame, a, b) ==
    IF frame = "year"
    THEN b.year - a.year
         + (IF b.month > a.month \/ (b.month = a.month /\ b.day >= a.day) THEN 1 ELSE 0)
    ELSE IF frame = "month"
    THEN (b.year - a.year) * 12 + (b.month - a.month) + (IF b.day >= a.day THEN 1 ELSE 0)
    ELSE IF frame = "week" THEN ((ToOrdinal(b) - ToOrdinal(a)) \div 7) + 1
    ELSE ToOrdinal(b) - ToOrdinal(a) + 1

Coarser(frame) ==
    IF frame = "year" THEN {}
    ELSE IF frame = "month" THEN {"year"}
    ELSE IF frame = "week" THEN {"year", "month"}
    ELSE {"year", "month", "week"}

\* C7: date_distribution selects the coarsest of year, month, week, day with
\* at least 5 periods from min to max, and day when none has 5; a range of
\* 400 days selects month.
C7_CoarsestResolutionWithFivePeriods ==
    (dd.pc = "done" /\ dd.path = "buckets")
    => /\ dd.resolution \in {"year", "month", "week", "day"}
       /\ \A frame \in Coarser(dd.resolution) :
            Periods(frame, dd.min_value, dd.max_value) < 5
       /\ \/ Periods(dd.resolution, dd.min_value, dd.max_value) >= 5
          \/ dd.resolution = "day"
       /\ ToOrdinal(dd.max_value) - ToOrdinal(dd.min_value) = 400
            => dd.resolution = "month"

\* the range of 400 days, for which year has 2 periods and month 14
C7_Witness ==
    /\ dd.pc = "done" /\ dd.path = "buckets"
    /\ table = ExampleDates
    /\ ToOrdinal(dd.max_value) - ToOrdinal(dd.min_value) = 400
    /\ dd.resolution = "month"
    /\ Len(executed[2].sql.case) = 14

=============================================================================
